---- MODULE Spec2Model ----
(***************************************************************************)
(* Model of src/dataproc_heart_analysis.py: the Bronze -> Silver ETL job   *)
(* main().  The Spark operations the script calls (csv reader with         *)
(* inferSchema, cast, arithmetic, filter, when/otherwise, drop,            *)
(* StringIndexer, VectorAssembler, StandardScaler, Pipeline, select,       *)
(* DataFrameWriter) are modelled by what they do to a DataFrame under the  *)
(* Spark 3.x defaults the script relies on (spark.sql.ansi.enabled=false,  *)
(* StringIndexer stringOrderType=frequencyDesc).                           *)
(*                                                                         *)
(* A DataFrame is [schema |-> sequence of [name, type], rows |-> set of    *)
(* rows]; a row is [id |-> position of the record in the csv file,         *)
(* c |-> function from column name to cell].  The id is not a column: it   *)
(* only keeps two equal records apart and lets a property follow a record  *)
(* through the stages.  Doubles are exact rationals plus NaN and the two   *)
(* infinities; rounding and overflow of finite values are not modelled.    *)
(***************************************************************************)
EXTENDS Integers, Sequences, FiniteSets, Bags, TLC

(* ------------------------------ bounds -------------------------------- *)
\* Largest number of records in the csv file.
MaxRows == 3
\* Number of times the job is run in succession on the same file.
MaxRuns == 2

(* ------------------------------- cells -------------------------------- *)
Null == [t |-> "null", s |-> "", n |-> 0, d |-> 1]
Str(x) == [t |-> "str", s |-> x, n |-> 0, d |-> 1]
NaN == [t |-> "nan", s |-> "", n |-> 0, d |-> 1]
PosInf == [t |-> "inf", s |-> "", n |-> 1, d |-> 1]
NegInf == [t |-> "inf", s |-> "", n |-> -1, d |-> 1]

Abs(i) == IF i < 0 THEN -i ELSE i

RECURSIVE Gcd(_, _)
Gcd(a, b) == IF b = 0 THEN a ELSE Gcd(b, a % b)

\* The finite double num/den, in lowest terms with a positive denominator.
Fin(num, den) ==
    LET g == Gcd(Abs(num), Abs(den))
        sg == IF den < 0 THEN -1 ELSE 1
    IN [t |-> "fin", s |-> "", n |-> sg * (num \div g), d |-> sg * (den \div g)]

IntCell(i) == [t |-> "int", s |-> "", n |-> i, d |-> 1]

IsFin(x) == x.t = "fin"
IsInf(x) == x.t = "inf"
Sign(x) == IF x.n < 0 THEN -1 ELSE IF x.n > 0 THEN 1 ELSE 0

(* --------------------- text of a csv cell -> double ------------------- *)
\* The numeric literals that occur in the modelled files, with their value
\* (java.lang.Double.parseDouble, which also reads "NaN" and "Infinity").
DoubleLiterals ==
    ("0" :> Fin(0, 1)) @@ ("2" :> Fin(2, 1)) @@
    ("7" :> Fin(7, 1)) @@ ("8" :> Fin(8, 1)) @@
    ("NaN" :> NaN) @@ ("Infinity" :> PosInf) @@ ("-Infinity" :> NegInf)

\* Cast of a string to double with ANSI mode off: a string that is no
\* number becomes null instead of raising.
ParseDouble(text) ==
    IF text \in DOMAIN DoubleLiterals THEN DoubleLiterals[text] ELSE Null

\* F.col(c).cast("double") on one cell.
CastDouble(x) ==
    CASE x.t = "null" -> Null
      [] x.t = "str" -> ParseDouble(x.s)
      [] x.t = "int" -> Fin(x.n, 1)
      [] OTHER -> x

(* --------------------------- double arithmetic ------------------------ *)
\* F.col(c) ** 2, i.e. pow(x, 2.0) on doubles.
PowTwo(x) ==
    CASE x.t = "null" -> Null
      [] x.t = "nan" -> NaN
      [] x.t = "inf" -> PosInf
      [] OTHER -> Fin(x.n * x.n, x.d * x.d)

\* Spark's Divide on doubles with ANSI mode off: null when an operand is
\* null or the divisor is zero, IEEE 754 division otherwise.
Divide(x, y) ==
    CASE x.t = "null" \/ y.t = "null" -> Null
      [] IsFin(y) /\ y.n = 0 -> Null
      [] x.t = "nan" \/ y.t = "nan" -> NaN
      [] IsInf(x) /\ IsInf(y) -> NaN
      [] IsInf(x) -> IF Sign(x) * Sign(y) < 0 THEN NegInf ELSE PosInf
      [] IsInf(y) -> Fin(0, 1)
      [] OTHER -> Fin(x.n * y.d, x.d * y.n)

RAdd(x, y) == Fin(x.n * y.d + y.n * x.d, x.d * y.d)
RSub(x, y) == Fin(x.n * y.d - y.n * x.d, x.d * y.d)
RMul(x, y) == Fin(x.n * y.n, x.d * y.d)


(* --------------------------- configuration ---------------------------- *)
categorical_cols ==
    << "Sex", "GeneralHealth", "LastCheckupTime", "PhysicalActivities",
       "RemovedTeeth", "HadAngina", "HadStroke", "HadAsthma", "HadSkinCancer",
       "HadCOPD", "HadDepressiveDisorder", "HadKidneyDisease", "HadArthritis",
       "HadDiabetes", "DeafOrHardOfHearing", "BlindOrVisionDifficulty",
       "DifficultyConcentrating", "DifficultyWalking",
       "DifficultyDressingBathing", "DifficultyErrands", "SmokerStatus",
       "ECigaretteUsage", "ChestScan", "RaceEthnicityCategory", "AgeCategory",
       "AlcoholDrinkers", "HIVTesting", "FluVaxLast12", "PneumoVaxEver",
       "TetanusLast10Tdap", "HighRiskLastYear", "CovidPos" >>

numerical_cols ==
    << "PhysicalHealthDays", "MentalHealthDays", "SleepHours", "BMI_Calculated" >>

\* The columns line 55 drops.
dropped_cols ==
    << "State", "HeightInMeters", "WeightInKilograms", "BMI", "HadHeartAttack" >>

Range(seq) == {seq[i] : i \in DOMAIN seq}

(* ----------------------------- DataFrames ------------------------------ *)
EmptyDF == [schema |-> << >>, rows |-> {}]

Names(df) == [i \in DOMAIN df.schema |-> df.schema[i].name]
HasCol(df, c) == \E i \in DOMAIN df.schema : df.schema[i].name = c
TypeOf(df, c) == (CHOOSE f \in Range(df.schema) : f.name = c).type
NoDuplicates(seq) == \A i, j \in DOMAIN seq : seq[i] = seq[j] => i = j

\* The contents of the rows of df.
Cells(df) == {r.c : r \in df.rows}

\* df.withColumn(name, expr): the column is replaced in place when the
\* name exists and appended otherwise; value[c] is the expression on the
\* row of contents c.
WithColumn(df, name, type, value) ==
    [schema |->
        IF HasCol(df, name)
        THEN [i \in DOMAIN df.schema |->
                 IF df.schema[i].name = name
                 THEN [name |-> name, type |-> type] ELSE df.schema[i]]
        ELSE Append(df.schema, [name |-> name, type |-> type]),
     rows |->
        {[id |-> r.id, c |-> (name :> value[r.c]) @@ r.c] : r \in df.rows}]

\* df.filter(cond): keep[c] is the condition on the row of contents c.
Filter(df, keep) ==
    [schema |-> df.schema, rows |-> {r \in df.rows : keep[r.c]}]

\* df.drop(*cols): a name that is no column is ignored.
Drop(df, cols) ==
    LET keeps(f) == f.name \notin Range(cols)
        kept == SelectSeq(df.schema, keeps)
    IN [schema |-> kept,
        rows |-> {[id |-> r.id,
                   c |-> [k \in {f.name : f \in Range(kept)} |-> r.c[k]]]
                  : r \in df.rows}]

\* df.select(*cols), for cols that are all columns of df.
Select(df, cols) ==
    [schema |-> [i \in DOMAIN cols |-> [name |-> cols[i], type |-> TypeOf(df, cols[i])]],
     rows |-> {[id |-> r.id, c |-> [k \in Range(cols) |-> r.c[k]]] : r \in df.rows}]

\* select raises AnalysisException when a name cannot be resolved.
SelectRaises(df, cols) == \E i \in DOMAIN cols : ~HasCol(df, cols[i])

(* ------------------------------- reader -------------------------------- *)
\* A csv file is [header |-> column names, records |-> sequence of
\* functions from column name to the cell's text (Str) or Null (empty)].
\* inferSchema: a column is numeric when it has a non-empty cell and every
\* non-empty cell reads as a number, and string otherwise.  The numeric
\* types are not told apart: the script's stages cast them to double.
InferType(file, col) ==
    LET texts == {file.records[i][col] : i \in DOMAIN file.records} \ {Null}
    IN IF texts # {} /\ \A x \in texts : ParseDouble(x.s) # Null
       THEN "double" ELSE "string"

\* spark.read.csv(path, header=True, inferSchema=True)
ReadCsv(file) ==
    LET type == [c \in Range(file.header) |-> InferType(file, c)]
    IN [schema |-> [i \in DOMAIN file.header |->
                       [name |-> file.header[i], type |-> type[file.header[i]]]],
        rows |-> {[id |-> i,
                   c |-> [k \in Range(file.header) |->
                             IF type[k] = "double"
                             THEN CastDouble(file.records[i][k])
                             ELSE file.records[i][k]]]
                  : i \in DOMAIN file.records}]

(* ------------------- cleaning and feature engineering ------------------ *)
\* Lines 31-32.  F.col of a name that is no column raises AnalysisException.
CastRaises(df) ==
    ~HasCol(df, "WeightInKilograms") \/ ~HasCol(df, "HeightInMeters")

CastColumns(df) ==
    LET weight == WithColumn(df, "WeightInKilograms", "double",
                             [c \in Cells(df) |-> CastDouble(c["WeightInKilograms"])])
    IN WithColumn(weight, "HeightInMeters", "double",
                  [c \in Cells(weight) |-> CastDouble(c["HeightInMeters"])])

\* Line 35.
BmiOf(c) == Divide(c["WeightInKilograms"], PowTwo(c["HeightInMeters"]))

\* Line 36: isNotNull() & ~isnan()
BmiKept(c) == c["BMI_Calculated"].t # "null" /\ c["BMI_Calculated"].t # "nan"

DeriveBmi(df) ==
    LET bmi == WithColumn(df, "BMI_Calculated", "double",
                          [c \in Cells(df) |-> BmiOf(c)])
    IN Filter(bmi, [c \in Cells(bmi) |-> BmiKept(c)])

\* LabelOf with a comparison that ignores case.
LabelOfAnyCase(x) == IF x \in {Str("Yes"), Str("yes")} THEN IntCell(1) ELSE IntCell(0)

\* Line 39: when(col == "Yes", 1).otherwise(0); a null comparison is not
\* true, so null takes the otherwise branch.  String equality is binary.
LabelOf(x) == IF x = Str("Yes") THEN IntCell(1) ELSE IntCell(0)

LabelRaises(df) == ~HasCol(df, "HadHeartAttack")

EncodeLabel(df) ==
    WithColumn(df, "HadHeartAttack_Numeric", "int",
               [c \in Cells(df) |-> LabelOf(c["HadHeartAttack"])])

\* Line 55.
DropRaw(df) == Drop(df, dropped_cols)

(* ------------------------------ ML stages ------------------------------ *)
\* The category texts of the modelled files in the order Spark compares
\* strings (binary, so upper case sorts before lower case).
StringOrder == << "F", "M", "No", "Yes" >>
Rank(x) == CHOOSE i \in DOMAIN StringOrder : StringOrder[i] = x.s

Count(df, col, x) == Cardinality({r \in df.rows : r.c[col] = x})

\* frequencyDesc: the more frequent label first, equal frequencies in
\* alphabetical order.
LabelBefore(df, col, a, b) ==
    \/ Count(df, col, a) > Count(df, col, b)
    \/ Count(df, col, a) = Count(df, col, b) /\ Rank(a) < Rank(b)

\* StringIndexer.fit: the labels of the non-null values of the column;
\* labels[i] is the value with index i - 1.
StringIndexerFit(df, col) ==
    LET seen == {r.c[col] : r \in df.rows} \ {Null}
        pos == [a \in seen |-> Cardinality({b \in seen : LabelBefore(df, col, b, a)})]
    IN [i \in 1..Cardinality(seen) |-> CHOOSE a \in seen : pos[a] = i - 1]

IndexOf(labels, x) == (CHOOSE i \in DOMAIN labels : labels[i] = x) - 1

\* StringIndexerModel.transform: with "skip" a row whose value is null or
\* no label is filtered out; with "keep" it gets the index Len(labels).
StringIndexerTransform(df, col, out, labels, handleInvalid) ==
    LET known == [c \in Cells(df) |-> c[col] \in Range(labels)]
        valid == IF handleInvalid = "skip" THEN Filter(df, known) ELSE df
    IN WithColumn(valid, out, "double",
                  [c \in Cells(valid) |->
                      IF known[c] THEN Fin(IndexOf(labels, c[col]), 1)
                      ELSE Fin(Len(labels), 1)])

Vec(v) == [t |-> "vec", s |-> "", n |-> 0, d |-> 1, v |-> v]

\* VectorAssembler.transform: with "skip" a row with a null or NaN input
\* is filtered out; with "keep" a null input becomes NaN in the vector.
VectorAssemblerTransform(df, cols, out, handleInvalid) ==
    LET valid == [c \in Cells(df) |->
                     \A i \in DOMAIN cols : c[cols[i]].t \notin {"null", "nan"}]
        kept == IF handleInvalid = "skip" THEN Filter(df, valid) ELSE df
        entry(x) == IF x.t = "null" THEN NaN ELSE CastDouble(x)
    IN WithColumn(kept, out, "vector",
                  [c \in Cells(kept) |-> Vec([i \in DOMAIN cols |-> entry(c[cols[i]])])])

RECURSIVE SumOver(_, _)
\* The sum of term[x] for x in the finite set S.
SumOver(S, term) ==
    IF S = {} THEN Fin(0, 1)
    ELSE LET x == CHOOSE y \in S : TRUE
         IN RAdd(term[x], SumOver(S \ {x}, term))

\* The unbiased sample variance of component i of the vectors (0 for a
\* single row), NaN when a value is not finite.
Variance(df, col, i) ==
    LET n == Cardinality(df.rows)
        val(r) == r.c[col].v[i]
        sum == SumOver(df.rows, [r \in df.rows |-> val(r)])
        sumsq == SumOver(df.rows, [r \in df.rows |-> RMul(val(r), val(r))])
    IN IF \E r \in df.rows : ~IsFin(val(r)) THEN NaN
       ELSE IF n < 2 THEN Fin(0, 1)
       ELSE Divide(RSub(sumsq, Divide(RMul(sum, sum), Fin(n, 1))), Fin(n - 1, 1))

\* StandardScaler.fit: the variance of each component of the input vector
\* (the standard deviation is its square root).
StandardScalerFit(df, col, size) == [i \in 1..size |-> Variance(df, col, i)]

\* One component scaled with withStd=True, withMean=False: x / std, and
\* 0.0 for a component of zero standard deviation.  The quotient by the
\* square root is kept as the pair of the value and the variance.
Scaled(x, var) ==
    IF var.t = "nan" THEN NaN
    ELSE IF var.n = 0 THEN Fin(0, 1)
    ELSE [t |-> "scaled", s |-> "", n |-> 0, d |-> 1, x |-> x, var |-> var]

StandardScalerTransform(df, col, out, var) ==
    WithColumn(df, out, "vector",
               [c \in Cells(df) |-> Vec([i \in DOMAIN var |-> Scaled(c[col].v[i], var[i])])])

(* ------------------------------- pipeline ------------------------------ *)
\* Indexer with handleInvalid="keep".
IndexerKeep(c) ==
    [kind |-> "indexer", inputCols |-> << c >>, outputCol |-> c \o "_indexed",
     handleInvalid |-> "keep"]

Indexer(c) ==
    [kind |-> "indexer", inputCols |-> << c >>, outputCol |-> c \o "_indexed",
     handleInvalid |-> "skip"]

\* Line 64.
indexers == [i \in DOMAIN categorical_cols |-> Indexer(categorical_cols[i])]
\* Line 65.
indexed_cols == [i \in DOMAIN categorical_cols |-> categorical_cols[i] \o "_indexed"]

\* num_assembler with handleInvalid="error", VectorAssembler's default.
num_assembler_error ==
    [kind |-> "assembler", inputCols |-> numerical_cols,
     outputCol |-> "num_features_unscaled", handleInvalid |-> "error"]

\* num_assembler with handleInvalid="keep".
num_assembler_keep ==
    [kind |-> "assembler", inputCols |-> numerical_cols,
     outputCol |-> "num_features_unscaled", handleInvalid |-> "keep"]

\* Line 68.
num_assembler ==
    [kind |-> "assembler", inputCols |-> numerical_cols,
     outputCol |-> "num_features_unscaled", handleInvalid |-> "skip"]

\* Line 69.
num_scaler ==
    [kind |-> "scaler", inputCols |-> << "num_features_unscaled" >>,
     outputCol |-> "num_features_scaled", handleInvalid |-> "error"]

\* Line 72.
transform_pipeline == indexers \o << num_assembler, num_scaler >>

\* A stage raises on a DataFrame that lacks an input column, already has
\* the output column, or (assembler) has a string input column.
SchemaRaises(stage, df) ==
    \/ \E i \in DOMAIN stage.inputCols : ~HasCol(df, stage.inputCols[i])
    \/ HasCol(df, stage.outputCol)
    \/ /\ stage.kind = "assembler"
       /\ \E i \in DOMAIN stage.inputCols : TypeOf(df, stage.inputCols[i]) = "string"
    \/ /\ stage.kind = "scaler"
       /\ TypeOf(df, stage.inputCols[1]) # "vector"

\* An assembler with handleInvalid="error" raises on a null or NaN input.
DataRaises(stage, df) ==
    /\ stage.kind = "assembler"
    /\ stage.handleInvalid = "error"
    /\ \E r \in df.rows : \E i \in DOMAIN stage.inputCols :
          r.c[stage.inputCols[i]].t \in {"null", "nan"}

\* Transforming by a stage raises on a schema or on data it rejects.
TransformRaises(stage, df) == SchemaRaises(stage, df) \/ DataRaises(stage, df)

\* Fitting a stage raises as transforming does, and the scaler's
\* summarizer raises on a DataFrame without rows.
FitRaises(stage, df) ==
    \/ TransformRaises(stage, df)
    \/ stage.kind = "scaler" /\ df.rows = {}

StageFit(stage, df) ==
    [stage |-> stage,
     labels |-> IF stage.kind = "indexer"
                THEN StringIndexerFit(df, stage.inputCols[1]) ELSE << >>,
     var |-> IF stage.kind = "scaler"
             THEN StandardScalerFit(df, stage.inputCols[1], Len(numerical_cols))
             ELSE << >>]

StageTransform(m, df) ==
    CASE m.stage.kind = "indexer" ->
            StringIndexerTransform(df, m.stage.inputCols[1], m.stage.outputCol,
                                   m.labels, m.stage.handleInvalid)
      [] m.stage.kind = "assembler" ->
            VectorAssemblerTransform(df, m.stage.inputCols, m.stage.outputCol,
                                     m.stage.handleInvalid)
      [] OTHER ->
            StandardScalerTransform(df, m.stage.inputCols[1], m.stage.outputCol, m.var)

IsEstimator(stage) == stage.kind # "assembler"

RECURSIVE FitFrom(_, _, _, _)
\* Pipeline.fit from stage i on: each stage is fitted on the DataFrame as
\* transformed by the stages before it; from the last estimator on the
\* DataFrame is not transformed any more.
FitFrom(stages, i, cur, fitted) ==
    IF i > Len(stages) THEN [ok |-> TRUE, stages |-> fitted]
    ELSE IF FitRaises(stages[i], cur) THEN [ok |-> FALSE, stages |-> << >>]
    ELSE LET m == StageFit(stages[i], cur)
             last == \A j \in (i + 1)..Len(stages) : ~IsEstimator(stages[j])
         IN FitFrom(stages, i + 1,
                    IF last THEN cur ELSE StageTransform(m, cur),
                    Append(fitted, m))

\* Pipeline.fit(df)
PipelineFit(stages, df) == FitFrom(stages, 1, df, << >>)

RECURSIVE TransformFrom(_, _, _)
\* PipelineModel.transform(df): the fitted stages applied in order; a
\* stage raises on a DataFrame whose schema it rejects.
TransformFrom(fitted, i, cur) ==
    IF i > Len(fitted) THEN [ok |-> TRUE, df |-> cur]
    ELSE IF TransformRaises(fitted[i].stage, cur) THEN [ok |-> FALSE, df |-> EmptyDF]
    ELSE TransformFrom(fitted, i + 1, StageTransform(fitted[i], cur))

PipelineTransform(fitted, df) == TransformFrom(fitted, 1, df)

\* final_bq_cols with the scaled vector selected too.
final_bq_cols_with_vector ==
    << "HadHeartAttack_Numeric" >> \o indexed_cols \o numerical_cols
        \o << "num_features_scaled" >>

\* Line 78.
final_bq_cols == << "HadHeartAttack_Numeric" >> \o indexed_cols \o numerical_cols

\* Lines 72-79 on df with the stages in a given order: whether fit,
\* transform and select all succeed, and the rows selected.
RunPipeline(stages, df) ==
    LET f == PipelineFit(stages, df)
        t == PipelineTransform(f.stages, df)
    IN IF f.ok /\ t.ok /\ ~SelectRaises(t.df, final_bq_cols)
       THEN [ok |-> TRUE, rows |-> Select(t.df, final_bq_cols).rows]
       ELSE [ok |-> FALSE, rows |-> {}]

(* ------------------------------ the sink ------------------------------- *)
\* The BigQuery table: column names and the bag of its rows.
TableOf(df) ==
    [schema |-> Names(df),
     rows |-> [v \in {r.c : r \in df.rows} |-> Cardinality({r \in df.rows : r.c = v})]]

\* WriteTable with .mode("append").
WriteTableAppend(old, df) ==
    [schema |-> Names(df), rows |-> old.rows (+) TableOf(df).rows]

\* Lines 82-86: .mode("overwrite").save() replaces the table by the
\* DataFrame.
WriteTable(old, df) == TableOf(df)

\* The table a run can find: left by an earlier job, with another schema.
PriorTable ==
    [schema |-> << "legacy" >>, rows |-> SetToBag({[legacy |-> Str("Yes")]})]

(* ---------------------------- control flow ----------------------------- *)
\* Lines 57-58: an exception of lines 28-55 enters the handler.
ProcessingErrorTarget == "except"
\* Line 60: the handler returns.
AfterProcessingError == "returned"
\* PipelineErrorTarget with the exception swallowed before the write.
PipelineErrorSwallowed == "write"

\* Lines 64-79 are in no try block: an exception leaves main().
PipelineErrorTarget == "raised"

(* ------------------------------ csv files ------------------------------ *)
\* The header of heart_2022_no_nans.csv: the columns the script names.
FullHeader ==
    << "State" >> \o categorical_cols \o
    << "PhysicalHealthDays", "MentalHealthDays", "SleepHours",
       "HeightInMeters", "WeightInKilograms", "BMI", "HadHeartAttack" >>

Without(seq, name) ==
    LET other(x) == x # name
    IN SelectSeq(seq, other)

\* The full header, headers that lack a column the script reads, and a
\* header with a column named like an output column of an indexer.
Headers ==
    { FullHeader, Without(FullHeader, "WeightInKilograms"),
      Without(FullHeader, "HadHeartAttack"), Without(FullHeader, "CovidPos"),
      Append(FullHeader, "Sex_indexed") }

\* A record without defects.
BaseRecord ==
    [c \in UNION {Range(h) : h \in Headers} |->
        CASE c = "State" -> Str("Ohio")
          [] c = "Sex" -> Str("M")
          [] c = "CovidPos" -> Str("Yes")
          [] c \in {"PhysicalHealthDays", "MentalHealthDays", "Sex_indexed"} -> Str("0")
          [] c = "SleepHours" -> Str("7")
          [] c = "HeightInMeters" -> Str("2")
          [] c = "WeightInKilograms" -> Str("8")
          [] c = "BMI" -> Str("2")
          [] c = "HadHeartAttack" -> Str("Yes")
          [] OTHER -> Str("No")]

\* The cells in which a record of a modelled file differs from BaseRecord,
\* grouped by the part of the job that reads the column.
Variations ==
    << [group |-> "bmi", col |-> "WeightInKilograms", text |-> Null],
       [group |-> "bmi", col |-> "WeightInKilograms", text |-> Str("abc")],
       [group |-> "bmi", col |-> "WeightInKilograms", text |-> Str("Infinity")],
       [group |-> "bmi", col |-> "WeightInKilograms", text |-> Str("NaN")],
       [group |-> "bmi", col |-> "HeightInMeters", text |-> Null],
       [group |-> "bmi", col |-> "HeightInMeters", text |-> Str("0")],
       [group |-> "label", col |-> "HadHeartAttack", text |-> Null],
       [group |-> "label", col |-> "HadHeartAttack", text |-> Str("No")],
       [group |-> "label", col |-> "HadHeartAttack", text |-> Str("")],
       [group |-> "label", col |-> "HadHeartAttack", text |-> Str("yes")],
       [group |-> "categorical", col |-> "Sex", text |-> Null],
       [group |-> "categorical", col |-> "Sex", text |-> Str("F")],
       [group |-> "categorical", col |-> "CovidPos", text |-> Null],
       [group |-> "categorical", col |-> "CovidPos", text |-> Str("No")],
       [group |-> "numerical", col |-> "SleepHours", text |-> Null],
       [group |-> "numerical", col |-> "SleepHours", text |-> Str("abc")],
       [group |-> "numerical", col |-> "SleepHours", text |-> Str("NaN")],
       [group |-> "numerical", col |-> "SleepHours", text |-> Str("8")] >>

\* Record 0 is BaseRecord, record k > 0 differs from it in Variations[k].
Record(k) ==
    IF k = 0 THEN BaseRecord
    ELSE [BaseRecord EXCEPT ![Variations[k].col] = Variations[k].text]

\* The record contents of the modelled files: at most MaxRows records,
\* whose variations are all of one group.  The order of the records of a
\* file does not matter to the job, so one order stands for all.
RecordChoices ==
    { s \in UNION {[1..n -> 0..Len(Variations)] : n \in 0..MaxRows} :
        /\ \A i, j \in DOMAIN s : i < j => s[i] <= s[j]
        /\ \A i, j \in DOMAIN s :
              s[i] > 0 /\ s[j] > 0 => Variations[s[i]].group = Variations[s[j]].group }

\* The file of the given header and records, each cut to the header.
FileWith(header, records) ==
    [header |-> header,
     records |-> [i \in DOMAIN records |-> [c \in Range(header) |-> records[i][c]]]]

FileOf(header, choice) ==
    FileWith(header, [i \in DOMAIN choice |-> Record(choice[i])])

\* The modelled files: every record content under the full header, and a
\* file of one good record under each header.
Files ==
    {FileOf(FullHeader, s) : s \in RecordChoices}
        \cup {FileOf(h, << 0 >>) : h \in Headers}

\* The records of the files on which stage orders are compared: they
\* vary in the columns the pipeline's stages filter on.
OrderRecords ==
    << BaseRecord,
       [BaseRecord EXCEPT !["Sex"] = Null],
       [BaseRecord EXCEPT !["Sex"] = Str("F")],
       [BaseRecord EXCEPT !["CovidPos"] = Null],
       [BaseRecord EXCEPT !["CovidPos"] = Str("No")],
       [BaseRecord EXCEPT !["SleepHours"] = Null],
       [BaseRecord EXCEPT !["Sex"] = Null, !["SleepHours"] = Null] >>

OrderFiles ==
    { FileWith(FullHeader, [i \in DOMAIN s |-> OrderRecords[s[i]]]) :
        s \in { q \in UNION {[1..n -> DOMAIN OrderRecords] : n \in 0..MaxRows} :
                  \A i, j \in DOMAIN q : i < j => q[i] <= q[j] } }

Reverse(seq) == [i \in DOMAIN seq |-> seq[Len(seq) + 1 - i]]

\* Other orders of the stages of transform_pipeline: the scaler stages
\* before the indexers, the indexers reversed, the indexers rotated.
AltOrders ==
    { << num_assembler, num_scaler >> \o indexers,
      Reverse(indexers) \o << num_assembler, num_scaler >>,
      Tail(indexers) \o << Head(indexers), num_assembler, num_scaler >> }

(* -------------------------------- state -------------------------------- *)
VARIABLES
    file,          \* the csv file at GCS_FILE_PATH; never written by the job
    table,         \* the BigQuery table BIGQUERY_OUTPUT_TABLE
    run,           \* number of the current run of the job
    pc,            \* the statement of main() to execute next
    session,       \* "none", "active" or "stopped"
    stops,         \* number of spark.stop() calls of this run
    df,            \* main()'s df
    model,         \* main()'s model: the fitted stages
    processed_df,  \* main()'s processed_df
    final_df_bq,   \* main()'s final_df_bq
    log,           \* what this run printed
    failed,        \* the stage that raised in this run, or "none"
    completed,     \* the stages this run has completed
    attempted,     \* whether this run has called save()
    tableBefore,   \* the table when this run started
    prev,          \* how the previous run ended
    alt,           \* another order of the pipeline's stages
    outputs        \* the pipeline's results in the script's order and in alt

vars == << file, table, run, pc, session, stops, df, model, processed_df,
           final_df_bq, log, failed, completed, attempted, tableBefore, prev,
           alt, outputs >>

\* The state in which main() is entered.
Entry ==
    [pc |-> "init", session |-> "none", stops |-> 0, df |-> EmptyDF,
     model |-> << >>, log |-> << >>, failed |-> "none", completed |-> {},
     attempted |-> FALSE]

InitRun ==
    /\ table = PriorTable
    /\ run = 1
    /\ pc = Entry.pc
    /\ session = Entry.session
    /\ stops = Entry.stops
    /\ df = Entry.df
    /\ model = Entry.model
    /\ processed_df = Entry.df
    /\ final_df_bq = Entry.df
    /\ log = Entry.log
    /\ failed = Entry.failed
    /\ completed = Entry.completed
    /\ attempted = Entry.attempted
    /\ tableBefore = table
    /\ prev = [ok |-> FALSE, table |-> table]
    /\ outputs = << >>

Init ==
    /\ file \in Files
    /\ alt = << >>
    /\ InitRun

\* The start of a comparison of stage orders.
InitOrder ==
    /\ file \in OrderFiles
    /\ alt \in AltOrders
    /\ InitRun

\* A stage raised: control goes to target.
Raise(stage, target) ==
    /\ failed' = stage
    /\ pc' = target
    /\ UNCHANGED << completed >>

Complete(stage, next) ==
    /\ completed' = completed \cup {stage}
    /\ pc' = next
    /\ UNCHANGED failed

\* Lines 21-22.
InitSession ==
    /\ pc = "init"
    /\ session' = "active"
    /\ pc' = "read"
    /\ UNCHANGED << file, table, run, stops, df, model, processed_df, final_df_bq,
                    log, failed, completed, attempted, tableBefore, prev, alt, outputs >>

\* Line 28.  The read raises when the path cannot be read.
Read ==
    /\ pc = "read"
    /\ \E readable \in BOOLEAN :
          IF readable
          THEN df' = ReadCsv(file) /\ Complete("read", "cast")
          ELSE df' = df /\ Raise("read", ProcessingErrorTarget)
    /\ UNCHANGED << file, table, run, session, stops, model, processed_df,
                    final_df_bq, log, attempted, tableBefore, prev, alt, outputs >>

\* Lines 31-32.
Cast ==
    /\ pc = "cast"
    /\ IF CastRaises(df)
       THEN df' = df /\ Raise("cast", ProcessingErrorTarget)
       ELSE df' = CastColumns(df) /\ Complete("cast", "derive")
    /\ UNCHANGED << file, table, run, session, stops, model, processed_df,
                    final_df_bq, log, attempted, tableBefore, prev, alt, outputs >>

\* Lines 35-36.
Derive ==
    /\ pc = "derive"
    /\ df' = DeriveBmi(df)
    /\ Complete("derive", "label")
    /\ UNCHANGED << file, table, run, session, stops, model, processed_df,
                    final_df_bq, log, attempted, tableBefore, prev, alt, outputs >>

\* Line 39.
Label ==
    /\ pc = "label"
    /\ IF LabelRaises(df)
       THEN df' = df /\ Raise("label", ProcessingErrorTarget)
       ELSE df' = EncodeLabel(df) /\ Complete("label", "drop")
    /\ UNCHANGED << file, table, run, session, stops, model, processed_df,
                    final_df_bq, log, attempted, tableBefore, prev, alt, outputs >>

\* Line 55.
DropColumns ==
    /\ pc = "drop"
    /\ df' = DropRaw(df)
    /\ Complete("drop", "fit")
    /\ UNCHANGED << file, table, run, session, stops, model, processed_df,
                    final_df_bq, log, attempted, tableBefore, prev, alt, outputs >>

\* Lines 57-60.
HandleProcessingError ==
    /\ pc = "except"
    /\ log' = Append(log, "ERROR during processing")
    /\ session' = "stopped"
    /\ stops' = stops + 1
    /\ pc' = AfterProcessingError
    /\ UNCHANGED << file, table, run, df, model, processed_df, final_df_bq,
                    failed, completed, attempted, tableBefore, prev, alt, outputs >>

\* Lines 64-73.  fit raises on a DataFrame a stage rejects, and when the
\* Spark job that computes it fails.
Fit ==
    /\ pc = "fit"
    /\ \E jobOk \in BOOLEAN :
          LET res == PipelineFit(transform_pipeline, df)
          IN IF jobOk /\ res.ok
             THEN model' = res.stages /\ Complete("fit", "transform")
             ELSE model' = model /\ Raise("fit", PipelineErrorTarget)
    /\ UNCHANGED << file, table, run, session, stops, df, processed_df,
                    final_df_bq, log, attempted, tableBefore, prev, alt, outputs >>

\* Line 74.
Transform ==
    /\ pc = "transform"
    /\ \E jobOk \in BOOLEAN :
          LET res == PipelineTransform(model, df)
          IN IF jobOk /\ res.ok
             THEN processed_df' = res.df /\ Complete("transform", "select")
             ELSE processed_df' = processed_df
                  /\ Raise("transform", PipelineErrorTarget)
    /\ UNCHANGED << file, table, run, session, stops, df, model, final_df_bq,
                    log, attempted, tableBefore, prev, alt, outputs >>

\* Lines 78-79.
SelectFinal ==
    /\ pc = "select"
    /\ IF SelectRaises(processed_df, final_bq_cols)
       THEN final_df_bq' = final_df_bq /\ Raise("select", PipelineErrorTarget)
       ELSE final_df_bq' = Select(processed_df, final_bq_cols)
            /\ Complete("select", "write")
    /\ UNCHANGED << file, table, run, session, stops, df, model, processed_df,
                    log, attempted, tableBefore, prev, alt, outputs >>

\* Lines 81-90.  A failed save leaves the table as it was.
Write ==
    /\ pc = "write"
    /\ attempted' = TRUE
    /\ \E saved \in BOOLEAN :
          IF saved
          THEN /\ table' = WriteTable(table, final_df_bq)
               /\ log' = Append(log, "Successfully wrote")
               /\ Complete("write", "stop")
          ELSE /\ table' = table
               /\ log' = Append(log, "ERROR: Could not write to BigQuery")
               /\ Raise("write", "stop")
    /\ UNCHANGED << file, run, session, stops, df, model, processed_df,
                    final_df_bq, tableBefore, prev, alt, outputs >>

\* Line 92.
StopSession ==
    /\ pc = "stop"
    /\ session' = "stopped"
    /\ stops' = stops + 1
    /\ pc' = "returned"
    /\ UNCHANGED << file, table, run, df, model, processed_df, final_df_bq,
                    log, failed, completed, attempted, tableBefore, prev, alt, outputs >>

Terminated == pc \in {"returned", "raised"}
Succeeded == pc = "returned" /\ "write" \in completed

\* Lines 94-95: the job is submitted again, on the same file.
Rerun ==
    /\ Terminated
    /\ run < MaxRuns
    /\ run' = run + 1
    /\ prev' = [ok |-> Succeeded, table |-> table]
    /\ tableBefore' = table
    /\ pc' = Entry.pc
    /\ session' = Entry.session
    /\ stops' = Entry.stops
    /\ df' = Entry.df
    /\ model' = Entry.model
    /\ processed_df' = Entry.df
    /\ final_df_bq' = Entry.df
    /\ log' = Entry.log
    /\ failed' = Entry.failed
    /\ completed' = Entry.completed
    /\ attempted' = Entry.attempted
    /\ UNCHANGED << file, table, alt, outputs >>

Next ==
    \/ InitSession
    \/ Read
    \/ Cast
    \/ Derive
    \/ Label
    \/ DropColumns
    \/ HandleProcessingError
    \/ Fit
    \/ Transform
    \/ SelectFinal
    \/ Write
    \/ StopSession
    \/ Rerun

Spec == Init /\ [][Next]_vars

\* Lines 72-79 run on df with the script's stage order and with alt.
CompareOrders ==
    /\ pc = "fit"
    /\ alt # << >>
    /\ outputs' = [code |-> RunPipeline(transform_pipeline, df),
                   alt |-> RunPipeline(alt, df)]
    /\ pc' = "compared"
    /\ UNCHANGED << file, table, run, session, stops, df, model, processed_df,
                    final_df_bq, log, failed, completed, attempted, tableBefore,
                    prev, alt >>

NextOrder ==
    \/ InitSession
    \/ Read
    \/ Cast
    \/ Derive
    \/ Label
    \/ DropColumns
    \/ HandleProcessingError
    \/ CompareOrders

SpecOrder == InitOrder /\ [][NextOrder]_vars
(* ------------------------------ properties ------------------------------ *)
Ids(d) == {r.id : r \in d.rows}

\* C1: the DataFrame handed to the sink has exactly the columns
\* HadHeartAttack_Numeric, <c>_indexed for each categorical column c in
\* order, and the four raw numerical columns; no raw outcome, height,
\* weight, categorical text or vector column; no name twice; and a
\* successful write gives the table that schema.
C1_OutputSchema ==
    LET names == Names(final_df_bq)
        n == Len(categorical_cols)
    IN /\ pc = "write" =>
            /\ Len(names) = n + 5
            /\ names[1] = "HadHeartAttack_Numeric"
            /\ \A i \in 1..n : names[i + 1] = categorical_cols[i] \o "_indexed"
            /\ SubSeq(names, n + 2, n + 5) =
                  << "PhysicalHealthDays", "MentalHealthDays", "SleepHours",
                     "BMI_Calculated" >>
            /\ Range(names) \cap
                  ({"HadHeartAttack", "HeightInMeters", "WeightInKilograms", "BMI",
                    "State", "num_features_unscaled", "num_features_scaled"}
                   \cup Range(categorical_cols)) = {}
            /\ NoDuplicates(names)
            /\ \A r \in final_df_bq.rows : DOMAIN r.c = Range(names)
       /\ "write" \in completed => table.schema = names

C1_Witness == pc = "write" /\ final_df_bq.rows # {}

\* C3: a record of the output has label 1 exactly when its raw
\* HadHeartAttack cell is the string "Yes", and label 0 (never null) for
\* every other cell: null, "No", "", "yes"; the output has no
\* HadHeartAttack column.
C3_Label ==
    "select" \in completed =>
        /\ \A r \in final_df_bq.rows :
              r.c["HadHeartAttack_Numeric"] =
                 IF file.records[r.id]["HadHeartAttack"] = Str("Yes")
                 THEN IntCell(1) ELSE IntCell(0)
        /\ "HadHeartAttack" \notin Range(Names(final_df_bq))

C3_Witness ==
    /\ "select" \in completed
    /\ \E r \in final_df_bq.rows : file.records[r.id]["HadHeartAttack"] = Str("yes")
    /\ \E r \in final_df_bq.rows : file.records[r.id]["HadHeartAttack"] = Str("Yes")

\* C5: a record with a null numerical column is not in the output, and a
\* record of the output carries the numerical columns with the values they
\* had in df, before the pipeline ran.
C5_Numerical ==
    "select" \in completed =>
        /\ \A r \in df.rows :
              (\E c \in Range(numerical_cols) : r.c[c] = Null)
                  => r.id \notin Ids(final_df_bq)
        /\ \A q \in final_df_bq.rows : \E r \in df.rows :
              /\ r.id = q.id
              /\ \A c \in Range(numerical_cols) : q.c[c] = r.c[c]

C5_Witness ==
    /\ "select" \in completed
    /\ \E r \in df.rows : r.c["SleepHours"] = Null
    /\ \E r \in final_df_bq.rows : r.c["SleepHours"] = Fin(7, 1)

\* C6: a run in which a stage before the write failed has not called
\* save() and has left the table as it found it; save() is called only
\* when every stage before it has completed.
C6_NoPartialPublication ==
    /\ attempted =>
          {"read", "cast", "derive", "label", "drop", "fit", "transform", "select"}
              \subseteq completed
    /\ failed \notin {"none", "write"} => ~attempted /\ table = tableBefore

C6_Witness == failed = "fit" /\ pc = "raised" /\ df.rows # {}

\* C8: after a successful write the table holds exactly the rows and the
\* columns of that run's output, whatever it held before; a successful run
\* after a successful run leaves the table as the first left it.
C8_Idempotent ==
    "write" \in completed =>
        /\ table.schema = Names(final_df_bq)
        /\ BagToSet(table.rows) = {r.c : r \in final_df_bq.rows}
        /\ \A v \in BagToSet(table.rows) :
              CopiesIn(v, table.rows) = Cardinality({r \in final_df_bq.rows : r.c = v})
        /\ run > 1 /\ prev.ok => table = prev.table

C8_Witness ==
    "write" \in completed /\ run > 1 /\ prev.ok /\ Cardinality(final_df_bq.rows) > 1
C2_FeatureDeriver ==
    "derive" \in completed =>
        \A i \in DOMAIN file.records :
            LET w == CastDouble(file.records[i]["WeightInKilograms"])
                h == CastDouble(file.records[i]["HeightInMeters"])
                invalid == \/ w = Null \/ h = Null
                           \/ h = Fin(0, 1)
                           \/ w.t \in {"nan", "inf"} \/ h.t = "nan"
            IN /\ invalid => i \notin Ids(df)
               /\ \A r \in df.rows :
                     r.id = i =>
                        /\ IsFin(r.c["BMI_Calculated"])
                        /\ RMul(r.c["BMI_Calculated"], RMul(h, h)) = w

\* C7: a failure of any stage is turned into a logged message and main()
\* returns normally; no exception leaves main().
C7_AllFailuresCaught ==
    failed # "none" /\ pc \in {"returned", "raised"} =>
        /\ pc = "returned"
        /\ \E i \in DOMAIN log : log[i] \in {"ERROR during processing",
                                             "ERROR: Could not write to BigQuery"}

\* C10: when main() has terminated the session has been stopped exactly
\* once, and every read, transformation and write runs on a session that
\* has not been stopped.
C10_SessionStoppedOnce ==
    /\ pc \in {"returned", "raised"} => session = "stopped" /\ stops = 1
    /\ pc \in {"read", "cast", "derive", "label", "drop", "fit", "transform",
               "select", "write"} => session = "active"
\* C9, as claimed: the rows of the output, with their <c>_indexed
\* values, are the same with the stages in the script's order and in
\* another order.
C9_OrderIndependent ==
    pc = "compared" /\ outputs.code.ok /\ outputs.alt.ok
        => outputs.code.rows = outputs.alt.rows

\* C9, amended: when the pipeline succeeds in the script's order it
\* succeeds in the other order and the same records survive; their
\* <c>_indexed values are the same too when no record of df is dropped.
C9_OrderAmended ==
    pc = "compared" /\ outputs.code.ok =>
        /\ outputs.alt.ok
        /\ {r.id : r \in outputs.code.rows} = {r.id : r \in outputs.alt.rows}
        /\ {r.id : r \in outputs.code.rows} = Ids(df)
              => outputs.code.rows = outputs.alt.rows

C9_Witness ==
    /\ pc = "compared"
    /\ outputs.code.ok
    /\ outputs.code.rows # outputs.alt.rows
    /\ \E r \in df.rows : r.id \notin {q.id : q \in outputs.code.rows}

====
